---- MODULE Spec2Model ----
(***************************************************************************)
(* zustand-persist-plus: the storage transform layers (migration,          *)
(* compression, encryption) and their composition, the AES envelope,       *)
(* and the conflict-resolution functions.                                  *)
(*                                                                         *)
(* Strings are modelled by their content class, JSON values by tagged      *)
(* records.  Every tagged record has the two fields k (the tag) and v, so  *)
(* that values of different classes compare unequal on the tag.            *)
(***************************************************************************)
EXTENDS Integers, Sequences, FiniteSets, TLC

VARIABLES
  store,     \* the underlying StateStorage: the string held under the key, or Absent
  cfg,       \* the options createPersistPlus was last called with
  written,   \* the value of the last setItem that reached the store since the last removeItem
  last,      \* what the last storage call did (its result and what each layer saw)
  cPlain, cSecret, cSecret2, cOptions, cEnvelope, cResult, cPc,   \* encrypt/decrypt calls
  rLocal, rRemote, rKey, rOptions, rResult, rPc,              \* conflict-resolution calls
  currentStrategy,   \* createConflictResolver: the strategy in force
  customHandler,     \* createConflictResolver: whether a custom handler is set
  mergeFn,           \* createConflictResolver: options.mergeStrategy || mergeStates
  conflictOptions,   \* createConflictResolver: the options it was created with
  resolution,        \* the last resolveWithResult call: arguments, result, functions invoked
  syncCfg,           \* withCloudSync: the configuration (autoSync, enableSync, strategy, handler, client)
  appState,          \* the store's state object, what get() returns
  lastSyncedState,   \* withCloudSync: lastSyncedState, by identity
  isRemoteUpdate,    \* withCloudSync: isRemoteUpdate
  pendingSync,       \* withCloudSync: pendingSync
  syncInterval,      \* withCloudSync: syncInterval ("null", "set" or "cleared")
  channel,           \* SupabaseSyncManager: this.channel
  subscribed,        \* whether the Supabase client holds the channel subscribe() opened
  remoteRow,         \* the remote table's value for the key 'default', or Absent
  inflight,          \* the storage.setItem calls that have not settled
  tornDown,          \* whether the teardown function has been invoked
  syncLast,          \* what the last step of the orchestrator did
  mStored,           \* staged migration: the blob the storage held at the start
  mMigrations,       \* the migrations map of both layers and of migrateState
  mVersionB,         \* the version of the intermediate layer
  mVersionC,         \* the version of the final layer, and migrateState's target
  mStore,            \* what the storage of the staged path holds
  mStaged,           \* the staged path's last getItem result
  mDirect,           \* getItem of the final layer over the blob as it was
  mState,            \* what migrateState resolved to
  mPc,
  zData,             \* shouldCompress: the string it is called with
  zMinSize,          \* its minSize argument, if given
  zResult,           \* what it returned
  zPc

vars == <<store, cfg, written, last, cPlain, cSecret, cSecret2, cOptions,
          cEnvelope, cResult, cPc, rLocal, rRemote, rKey, rOptions, rResult, rPc,
          currentStrategy, customHandler, mergeFn, conflictOptions, resolution,
          syncCfg, appState, lastSyncedState, isRemoteUpdate, pendingSync, syncInterval,
          channel, subscribed, remoteRow, inflight, tornDown, syncLast,
          mStored, mMigrations, mVersionB, mVersionC, mStore, mStaged, mDirect, mState, mPc,
          zData, zMinSize, zResult, zPc>>
storageVars == <<store, cfg, written, last>>
cryptoVars == <<cPlain, cSecret, cSecret2, cOptions, cEnvelope, cResult, cPc>>
resolverVars == <<rLocal, rRemote, rKey, rOptions, rResult, rPc>>
conflictVars == <<currentStrategy, customHandler, mergeFn, conflictOptions, resolution>>
syncVars == <<syncCfg, appState, lastSyncedState, isRemoteUpdate, pendingSync, syncInterval,
              channel, subscribed, remoteRow, inflight, tornDown, syncLast>>
stagedVars == <<mStored, mMigrations, mVersionB, mVersionC, mStore, mStaged, mDirect, mState, mPc>>
compressVars == <<zData, zMinSize, zResult, zPc>>

-----------------------------------------------------------------------------
(* Bounds of the model. *)

\* The schema versions a migration layer is configured with are 1..MaxVersion.
MaxVersion == 2
\* Timestamps of the states handed to lastWriteWins range over -1..MaxTime.
MaxTime == 2
\* The orchestrator's timer stops firing once this many remote writes are in flight.
MaxInflight == 2
\* shouldCompress is called with every string of up to this many characters.
MaxLength == 8

-----------------------------------------------------------------------------
(* JSON values. *)

JNum(n) == [k |-> "num", v |-> n]
JNull == [k |-> "null", v |-> 0]
JStr(s) == [k |-> "str", v |-> s]
JArr(s) == [k |-> "arr", v |-> s]
JObj(f) == [k |-> "obj", v |-> f]
\* A JSON string whose content is a Base64 ciphertext (an abstract AES output).
JCipher(c) == [k |-> "ct", v |-> c]

NoFields == [x \in {} |-> JNull]
Put(f, key, val) == [x \in (DOMAIN f) \cup {key} |-> IF x = key THEN val ELSE f[x]]
Del(f, key) == [x \in (DOMAIN f) \ {key} |-> f[x]]
\* { ...a, ...b }
Spread(a, b) == [x \in (DOMAIN a) \cup (DOMAIN b) |-> IF x \in DOMAIN b THEN b[x] ELSE a[x]]

-----------------------------------------------------------------------------
(* Strings, by content class.                                              *)
(*   json    the text JSON.stringify gives for the value v                 *)
(*   jsonws  a JSON text of the value v that JSON.stringify would not give *)
(*           (insignificant white space after the text)                    *)
(*   text    a string that is no JSON text; v is the string ("" included)  *)
(*   lone    a string holding a lone surrogate (ill-formed UTF-16)         *)
(*   lz      LZString.compressToUTF16 of the string v                      *)
(*   junk    what a decoder made of an input that was not its own output   *)

SJson(jv) == [k |-> "json", v |-> jv]
SJsonWs(jv) == [k |-> "jsonws", v |-> jv]
SText(s) == [k |-> "text", v |-> s]
SLone == [k |-> "lone", v |-> 0]
\* 'x'.repeat(n)
SRep(n) == [k |-> "rep", v |-> n]
SLz(s) == [k |-> "lz", v |-> s]
SJunk(by) == [k |-> "junk", v |-> by]
EmptyString == SText("")

\* What a storage getItem returns for a key it does not hold.
Absent == [k |-> "absent", v |-> 0]

\* Outcomes of a call: a returned value or a thrown error.
Ok(x) == [k |-> "ok", v |-> x]
Throw(msg) == [k |-> "throw", v |-> msg]

JSON_stringify(jv) == SJson(jv)

JSON_parse(s) ==
  IF s.k \in {"json", "jsonws"} THEN Ok(s.v) ELSE Throw("SyntaxError")

Digits(n) == IF n < 0 THEN (IF n > -10 THEN 2 ELSE 3) ELSE IF n < 10 THEN 1 ELSE IF n < 100 THEN 2 ELSE 3

\* Base64 length of an AES-CBC/Pkcs7 ciphertext of n plaintext bytes.
CipherLength(n) ==
  LET bytes == 16 * ((n \div 16) + 1) IN 4 * ((bytes + 2) \div 3)

RECURSIVE JsonLength(_)
RECURSIVE MembersLength(_, _, _)
RECURSIVE Length(_)
\* The length of the members of f (an object's fields or an array's elements) at
\* the positions ks, commas not counted; keyed for an object's "key": prefixes.
MembersLength(f, ks, keyed) ==
  IF ks = {} THEN 0
  ELSE LET x == CHOOSE y \in ks : TRUE IN
       (IF keyed THEN Len(x) + 3 ELSE 0) + JsonLength(f[x]) + MembersLength(f, ks \ {x}, keyed)

JsonLength(jv) ==
  CASE jv.k = "num" -> Digits(jv.v)
    [] jv.k = "null" -> 4
    [] jv.k = "str" -> Len(jv.v) + 2
    [] jv.k = "ct" -> CipherLength(Length(jv.v.plain)) + 2
    [] jv.k \in {"arr", "obj"} ->
         LET n == Cardinality(DOMAIN jv.v) IN
         2 + MembersLength(jv.v, DOMAIN jv.v, jv.k = "obj") + (IF n > 1 THEN n - 1 ELSE 0)

\* String.prototype.length, for the strings whose length the code reads.
Length(s) ==
  CASE s.k = "json" -> JsonLength(s.v)
    [] s.k = "jsonws" -> JsonLength(s.v) + 1
    [] s.k = "text" -> Len(s.v)
    [] s.k = "lone" -> 1
    [] s.k = "rep" -> s.v

-----------------------------------------------------------------------------
(* Compression: compression/lz-string.ts over the lz-string library.       *)

\* minSize of DEFAULT_OPTIONS and the default of shouldCompress's parameter.
DefaultMinSize == 1024
\* An optional argument is a sequence of no value (undefined) or of one value.
NotGiven == <<>>
Given(x) == <<x>>

\* What LZString.decompressFromUTF16 makes of a string whose decoding is not
\* listed below: null, "" or a string of decoded junk.
LzOutcomes == {"null", "empty", "junk"}

compress(data) == SLz(data)

\* LZString.decompressFromUTF16.  The output of compressToUTF16 gives back its
\* input and "" gives null.  Any other string is read as a bit stream all the
\* same: a text that starts with {" (JSON.stringify of an object that has a
\* key) gives "@@@\u0000", "hello" gives "@", "[]" gives "", "5" and "null"
\* give null; lib is the outcome for the remaining strings.
LZString_decompressFromUTF16(compressed, lib) ==
  CASE compressed.k = "lz" -> compressed.v
    [] compressed = EmptyString -> Absent
    [] compressed.k \in {"json", "jsonws"} /\ compressed.v.k = "obj"
         /\ DOMAIN compressed.v.v # {} -> SJunk("lz")
    [] compressed = SText("hello") -> SJunk("lz")
    [] compressed = SJson(JArr(<<>>)) -> EmptyString
    [] compressed \in {SJson(JNum(5)), SJson(JNull)} -> Absent
    [] OTHER -> CASE lib = "null" -> Absent
                  [] lib = "empty" -> EmptyString
                  [] lib = "junk" -> SJunk("lz")

decompress(compressedData, lib) ==
  LET decompressed == LZString_decompressFromUTF16(compressedData, lib)
  IN IF decompressed = Absent THEN Throw("Failed to decompress data") ELSE Ok(decompressed)

\* shouldCompress with > for >=.
shouldCompress_above(data, minSize) ==
  Length(data) > (IF minSize = NotGiven THEN DefaultMinSize ELSE minSize[1])

shouldCompress(data, minSize) ==
  Length(data) >= (IF minSize = NotGiven THEN DefaultMinSize ELSE minSize[1])

-----------------------------------------------------------------------------
(* Encryption: encryption/aes-gcm.ts over crypto-js.                       *)

DefaultIterations == 10000
DefaultKeyLength == 256
DEFAULT_OPTIONS ==
  [algorithm |-> "AES-GCM", secret |-> "", iterations |-> DefaultIterations,
   keyLength |-> DefaultKeyLength, salt |-> "", iv |-> ""]

\* PBKDF2: the key is determined by, and stands for, its four inputs.
deriveKey(passphrase, salt, iterations, keyLength) ==
  <<passphrase, salt, iterations, keyLength>>

\* CryptoJS.AES.encrypt in CBC mode (CryptoJS.mode.GCM does not exist) with
\* Pkcs7 padding: the ciphertext stands for the key, the iv and the plaintext.
AES_encrypt(data, key, iv) == [key |-> key, iv |-> iv, plain |-> data]

\* What CryptoJS.AES.decrypt(...).toString(Utf8) gives when the key or the iv is
\* not the one the ciphertext was made with.  CBC with Pkcs7 is not
\* authenticated: the padding byte and the bytes before it are pseudo-random, so
\* the result is "Malformed UTF-8 data" (thrown), "" or a string of junk.
CbcOutcomes == {"malformed", "empty", "junk"}

AES_decrypt(ciphertext, key, iv, cbc) ==
  IF ciphertext.key = key /\ ciphertext.iv = iv THEN Ok(ciphertext.plain)
  ELSE IF cbc = "malformed" THEN Throw("Malformed UTF-8 data")
  ELSE IF cbc = "empty" THEN Ok(EmptyString)
  ELSE Ok(SJunk("aes"))

\* encrypt writing config.salt and config.iv, not the salt and iv it used,
\* into the envelope.
encrypt_storesConfigSalt(data, secret, options, rndSalt, rndIv) ==
  IF secret = "" THEN Throw("Encryption secret is required")
  ELSE
    LET config == Spread(Spread(DEFAULT_OPTIONS, options), [secret |-> secret])
        salt == IF config.salt # "" THEN config.salt ELSE rndSalt
        iv == IF config.iv # "" THEN config.iv ELSE rndIv
        key == deriveKey(secret, salt, config.iterations, config.keyLength)
    IN IF data.k = "lone" THEN Throw("URIError")
       ELSE Ok(JSON_stringify(JObj(
              [salt |-> JStr(config.salt), iv |-> JStr(config.iv),
               ciphertext |-> JCipher(AES_encrypt(data, key, iv)),
               algorithm |-> JStr(config.algorithm)])))

\* rndSalt, rndIv: what generateSalt() and generateIV() return when called.
encrypt(data, secret, options, rndSalt, rndIv) ==
  IF secret = "" THEN Throw("Encryption secret is required")
  ELSE
    LET config == Spread(Spread(DEFAULT_OPTIONS, options), [secret |-> secret])
        salt == IF config.salt # "" THEN config.salt ELSE rndSalt
        iv == IF config.iv # "" THEN config.iv ELSE rndIv
        key == deriveKey(secret, salt,
                         IF config.iterations # 0 THEN config.iterations ELSE DefaultIterations,
                         IF config.keyLength # 0 THEN config.keyLength ELSE DefaultKeyLength)
    IN IF data.k = "lone" THEN Throw("URIError")   \* CryptoJS.enc.Utf8.parse
       ELSE Ok(JSON_stringify(JObj(
              [salt |-> JStr(salt), iv |-> JStr(iv),
               ciphertext |-> JCipher(AES_encrypt(data, key, iv)),
               algorithm |-> JStr(config.algorithm)])))

FailedToDecrypt == Throw("Failed to decrypt data. Check your secret key.")

\* The try block of decrypt; cbc: the cipher's outcome under a wrong key or
\* iv (CbcOutcomes).
DecryptTry(encryptedData, secret, cbc) ==
  LET parsed == JSON_parse(encryptedData) IN
  IF parsed.k = "throw" THEN FailedToDecrypt
  ELSE IF parsed.v.k = "null" THEN FailedToDecrypt   \* destructuring null
  ELSE IF parsed.v.k # "obj" THEN FailedToDecrypt    \* algorithm is undefined
  ELSE
    LET f == parsed.v.v IN
    IF ~("algorithm" \in DOMAIN f /\ f.algorithm = JStr("AES-GCM")) THEN FailedToDecrypt
    ELSE IF ~({"salt", "iv", "ciphertext"} \subseteq DOMAIN f) THEN FailedToDecrypt
    ELSE IF ~(f.salt.k = "str" /\ f.iv.k = "str" /\ f.ciphertext.k = "ct") THEN FailedToDecrypt
    ELSE
      LET key == deriveKey(secret, f.salt.v, DEFAULT_OPTIONS.iterations, DEFAULT_OPTIONS.keyLength)
          decrypted == AES_decrypt(f.ciphertext.v, key, f.iv.v, cbc)
      IN IF decrypted.k = "throw" THEN FailedToDecrypt
         ELSE IF decrypted.v = EmptyString THEN FailedToDecrypt   \* if (!result)
         ELSE Ok(decrypted.v)

\* decrypt with the test of the secret inside its try block.
decrypt_secretInsideTry(encryptedData, secret, cbc) ==
  IF secret = "" THEN FailedToDecrypt ELSE DecryptTry(encryptedData, secret, cbc)

decrypt(encryptedData, secret, cbc) ==
  IF secret = "" THEN Throw("Encryption secret is required")
  ELSE DecryptTry(encryptedData, secret, cbc)

-----------------------------------------------------------------------------
(* Options.  An option that may be absent, a boolean or an object is a     *)
(* tagged record: off (undefined or false), bool (true), options (object). *)

Off == [k |-> "off", v |-> 0]
BoolTrue == [k |-> "bool", v |-> TRUE]
Options(o) == [k |-> "options", v |-> o]

-----------------------------------------------------------------------------
(* Migration functions (MigrationOptions.migrations[v]) the model draws    *)
(* from, named; ApplyMigration calls one.                                  *)
(*   addCreatedAt  (s) => ({ ...s, createdAt: 1 })                         *)
(*   renameCount   ({ count, ...rest }) => ({ ...rest, total: count })     *)
(*   inc           (s) => ({ ...s, count: (s.count || 0) + 1 })            *)
(*   throws        () => { throw new Error() }                             *)
(*   returnsNull   () => null                                              *)
(*   tagVersion    (s) => ({ ...s, from: s._version || 0 })                *)

MigrationFns == {"addCreatedAt", "renameCount", "inc", "throws", "returnsNull", "tagVersion"}

\* The own enumerable properties a spread or a rest pattern copies.
OwnFields(jv) == IF jv.k = "obj" THEN jv.v ELSE NoFields

ApplyMigration(fn, state) ==
  CASE fn = "addCreatedAt" -> Ok(JObj(Put(OwnFields(state), "createdAt", JNum(1))))
    [] fn = "renameCount" ->
         IF state.k = "null" THEN Throw("TypeError")
         ELSE IF "count" \in DOMAIN OwnFields(state)
              THEN Ok(JObj(Put(Del(OwnFields(state), "count"), "total", OwnFields(state)["count"])))
              ELSE Ok(JObj(OwnFields(state)))
    [] fn = "inc" ->
         IF state.k = "null" THEN Throw("TypeError")
         ELSE LET f == OwnFields(state)
                  c == IF "count" \in DOMAIN f /\ f["count"].k = "num" THEN f["count"].v ELSE 0
              IN Ok(JObj(Put(f, "count", JNum(c + 1))))
    [] fn = "throws" -> Throw("Error")
    [] fn = "returnsNull" -> Ok(JNull)
    [] fn = "tagVersion" ->
         IF state.k = "null" THEN Throw("TypeError")
         ELSE LET f == OwnFields(state)
                  v == IF "_version" \in DOMAIN f /\ f["_version"].k = "num" THEN f["_version"].v ELSE 0
              IN Ok(JObj(Put(f, "from", JNum(v))))

-----------------------------------------------------------------------------
(* The transform layers of middleware/persist-plus.ts.  A layer's getItem  *)
(* takes what the inner storage's getItem returned (a string or Absent), a *)
(* layer's setItem gives what it hands to the inner storage's setItem.     *)

\* parsed._version || 0
VersionOf(parsed) ==
  IF parsed.k = "obj" /\ "_version" \in DOMAIN parsed.v /\ parsed.v["_version"].k = "num"
  THEN parsed.v["_version"].v ELSE 0

\* parsed._version = version; JSON.stringify(parsed), in strict mode (a module).
StampVersion(parsed, version) ==
  CASE parsed.k = "obj" -> Ok(JSON_stringify(JObj(Put(parsed.v, "_version", JNum(version)))))
    [] parsed.k = "arr" -> Ok(JSON_stringify(parsed))   \* an array's extra property is not serialized
    [] OTHER -> Throw("TypeError")                      \* null or a primitive

RECURSIVE MigrationLoop_stopsAtGap(_, _, _, _, _)
\* MigrationLoop with a break at the first version that has no migration.
MigrationLoop_stopsAtGap(state, v, version, migrations, calls) ==
  IF v > version THEN [out |-> Ok(state), calls |-> calls]
  ELSE IF v \in DOMAIN migrations
       THEN LET r == ApplyMigration(migrations[v], state) IN
            IF r.k = "throw" THEN [out |-> r, calls |-> Append(calls, v)]
            ELSE MigrationLoop_stopsAtGap(r.v, v + 1, version, migrations, Append(calls, v))
       ELSE [out |-> Ok(state), calls |-> calls]

RECURSIVE MigrationLoop(_, _, _, _, _)
\* for (let v = from; v <= version; v++) if (migrations[v]) state = migrations[v](state)
\* out: the final state or the error thrown; calls: the versions whose function was called.
MigrationLoop(state, v, version, migrations, calls) ==
  IF v > version THEN [out |-> Ok(state), calls |-> calls]
  ELSE IF v \in DOMAIN migrations
       THEN LET r == ApplyMigration(migrations[v], state) IN
            IF r.k = "throw" THEN [out |-> r, calls |-> Append(calls, v)]
            ELSE MigrationLoop(r.v, v + 1, version, migrations, Append(calls, v))
       ELSE MigrationLoop(state, v + 1, version, migrations, calls)

\* The try block of createMigratingStorage.getItem: the value returned or the
\* error the catch receives, with the migration calls made.
MigratingRead(stored, version, migrations) ==
  LET parsed == JSON_parse(stored) IN
  IF parsed.k = "throw" THEN [out |-> parsed, calls |-> <<>>]
  ELSE IF parsed.v.k = "null" THEN [out |-> Throw("TypeError"), calls |-> <<>>]
  ELSE
    LET storedVersion == VersionOf(parsed.v) IN
    IF storedVersion < version
    THEN LET m == MigrationLoop(parsed.v, storedVersion + 1, version, migrations, <<>>) IN
         IF m.out.k = "throw" THEN m
         ELSE [out |-> StampVersion(m.out.v, version), calls |-> m.calls]
    ELSE [out |-> Ok(stored), calls |-> <<>>]

createMigratingStorage_getItem(stored, version, migrations) ==
  IF stored = Absent THEN Ok(Absent)
  ELSE IF stored.k = "promise" THEN Ok(Absent)    \* stored instanceof Promise
  ELSE LET r == MigratingRead(stored, version, migrations).out IN
       IF r.k = "throw" THEN Ok(stored) ELSE r

\* createMigratingStorage_setItem without the stamp: the value is stored as given.
createMigratingStorage_setItem_raw(value, version) == value

createMigratingStorage_setItem(value, version) ==
  LET parsed == JSON_parse(value) IN
  IF parsed.k = "throw" THEN value
  ELSE LET stamped == StampVersion(parsed.v, version) IN
       IF stamped.k = "throw" THEN value ELSE stamped.v

\* What the promise migrateState returns resolves to: a JSON value (null when
\* nothing is stored), or the stored string when the try block threw.
Resolved(kind, v) == [k |-> kind, v |-> v]

migrateState(stored, toVersion, migrations) ==
  IF stored = Absent THEN Resolved("value", JNull)
  ELSE LET parsed == JSON_parse(stored) IN
       IF parsed.k = "throw" THEN Resolved("string", stored)
       ELSE IF parsed.v.k = "null" THEN Resolved("string", stored)
       ELSE LET fromVersion == VersionOf(parsed.v) IN
            IF fromVersion < toVersion
            THEN LET m == MigrationLoop(parsed.v, fromVersion + 1, toVersion, migrations, <<>>) IN
                 IF m.out.k = "throw" THEN Resolved("string", stored)
                 ELSE Resolved("value", m.out.v)
            ELSE Resolved("value", parsed.v)

\* What getItem of an asynchronous storage returns: a Promise of the value.
PromiseOf(value) == [k |-> "promise", v |-> value]
\* stored instanceof Promise
IsPromise(stored) == stored.k = "promise"

createCompressedStorage_getItem(stored, lib) ==
  IF stored = Absent THEN Ok(Absent)
  ELSE IF IsPromise(stored) THEN Ok(Absent)
  ELSE LET r == decompress(stored, lib) IN
       IF r.k = "throw" THEN Ok(stored) ELSE r

\* compressionOptions: BoolTrue or Options([minSize |-> n]) or Options(NoFields)
MinSizeOf(compressionOptions) ==
  IF compressionOptions.k = "options" /\ "minSize" \in DOMAIN compressionOptions.v
  THEN Given(compressionOptions.v["minSize"]) ELSE NotGiven

createCompressedStorage_setItem(value, compressionOptions) ==
  IF shouldCompress(value, MinSizeOf(compressionOptions)) THEN compress(value) ELSE value

\* createEncryptedStorage.getItem without its try/catch.
createEncryptedStorage_getItem_rethrows(stored, secret, cbc) ==
  IF stored = Absent THEN Ok(Absent) ELSE decrypt(stored, secret, cbc)

createEncryptedStorage_getItem(stored, secret, cbc) ==
  IF stored = Absent THEN Ok(Absent)
  ELSE IF IsPromise(stored) THEN Ok(Absent)
  ELSE LET r == decrypt(stored, secret, cbc) IN
       IF r.k = "throw" THEN Ok(stored) ELSE r

\* The options createEncryptedStorage hands to encrypt.
EncryptOptionsOf(encryptionOptions) ==
  IF encryptionOptions.k = "options" THEN encryptionOptions.v ELSE [algorithm |-> "AES-GCM"]

\* The string handed to the inner setItem, or the error encrypt throws to the caller.
createEncryptedStorage_setItem(value, secret, encryptionOptions, rndSalt, rndIv) ==
  encrypt(value, secret, EncryptOptionsOf(encryptionOptions), rndSalt, rndIv)

-----------------------------------------------------------------------------
(* createPersistPlus: the chain of layers it builds around the underlying  *)
(* storage, innermost first.                                               *)

Layer(kind, p) == [kind |-> kind, p |-> p]

createPersistPlus(options) ==
  LET migrationOptions == options.migrate
      compressOptions == options.compress
      encryptOptions == options.encrypt
      s0 == <<>>
      \* Apply migrations first
      s1 == IF migrationOptions.k # "off"
            THEN Append(s0, Layer("migrate", migrationOptions.v)) ELSE s0
      \* Apply compression
      s2 == IF compressOptions.k # "off"
            THEN Append(s1, Layer("compress", compressOptions)) ELSE s1
      \* Apply encryption last (outermost layer)
      s3 == IF encryptOptions.k # "off"
            THEN LET secret == IF encryptOptions.k = "bool" THEN "" ELSE encryptOptions.v.secret
                 IN Append(s2, Layer("encrypt", [secret |-> secret, options |-> encryptOptions]))
            ELSE s2
  IN s3

\* One layer's getItem over what its inner storage returned.
Layer_getItem(layer, stored, lib, cbc) ==
  CASE layer.kind = "migrate" ->
         createMigratingStorage_getItem(stored, layer.p.version, layer.p.migrations)
    [] layer.kind = "compress" -> createCompressedStorage_getItem(stored, lib)
    [] layer.kind = "encrypt" -> createEncryptedStorage_getItem(stored, layer.p.secret, cbc)

\* Whether the layer's inverse transform throws on the stored string.
InverseFails(layer, stored, lib, cbc) ==
  /\ stored # Absent /\ ~IsPromise(stored)
  /\ CASE layer.kind = "migrate" ->
            MigratingRead(stored, layer.p.version, layer.p.migrations).out.k = "throw"
       [] layer.kind = "compress" -> decompress(stored, lib).k = "throw"
       [] layer.kind = "encrypt" -> decrypt(stored, layer.p.secret, cbc).k = "throw"

\* The versions whose migration function the layer's getItem calls.
MigrationCalls(layer, stored) ==
  IF layer.kind = "migrate" /\ stored # Absent /\ ~IsPromise(stored)
  THEN MigratingRead(stored, layer.p.version, layer.p.migrations).calls ELSE <<>>

\* One layer's setItem: the string handed to the inner setItem, or the error thrown.
Layer_setItem(layer, value, rndSalt, rndIv) ==
  CASE layer.kind = "migrate" -> Ok(createMigratingStorage_setItem(value, layer.p.version))
    [] layer.kind = "compress" -> Ok(createCompressedStorage_setItem(value, layer.p))
    [] layer.kind = "encrypt" ->
         createEncryptedStorage_setItem(value, layer.p.secret, layer.p.options, rndSalt, rndIv)

Step(kind, inp, out, failed, calls) ==
  [kind |-> kind, inp |-> inp, out |-> out, failed |-> failed, calls |-> calls]

RECURSIVE Storage_getItem(_, _, _, _)
\* getItem on the chain: the outermost layer calls its inner storage's getItem
\* (outside its try block) and then transforms.  trace: the layers in the order
\* they transformed.
Storage_getItem(layers, base, lib, cbc) ==
  IF layers = <<>> THEN [res |-> Ok(base), trace |-> <<>>]
  ELSE
    LET outer == layers[Len(layers)]
        inner == Storage_getItem(SubSeq(layers, 1, Len(layers) - 1), base, lib, cbc)
    IN IF inner.res.k = "throw" THEN inner
       ELSE LET stored == inner.res.v
                out == Layer_getItem(outer, stored, lib, cbc)
            IN [res |-> out,
                trace |-> Append(inner.trace,
                            Step(outer.kind, stored, out,
                                 InverseFails(outer, stored, lib, cbc),
                                 MigrationCalls(outer, stored)))]

RECURSIVE Storage_setItem(_, _, _, _)
\* setItem on the chain: the outermost layer transforms and calls its inner
\* storage's setItem.  write: what reaches the underlying storage, if anything.
Storage_setItem(layers, value, rndSalt, rndIv) ==
  IF layers = <<>> THEN [res |-> Ok(Absent), write |-> Given(value), trace |-> <<>>]
  ELSE
    LET outer == layers[Len(layers)]
        out == Layer_setItem(outer, value, rndSalt, rndIv)
        step == Step(outer.kind, value, out, out.k = "throw", <<>>)
    IN IF out.k = "throw" THEN [res |-> out, write |-> NotGiven, trace |-> <<step>>]
       ELSE LET inner == Storage_setItem(SubSeq(layers, 1, Len(layers) - 1), out.v, rndSalt, rndIv)
            IN [res |-> inner.res, write |-> inner.write, trace |-> <<step>> \o inner.trace]

-----------------------------------------------------------------------------
(* The storage state machine: one key of one underlying storage, and an    *)
(* application that calls the storage createPersistPlus built.             *)

Payload == JObj([count |-> JNum(5)])

\* The strings the application writes.
WriteValues ==
  { SJson(Payload), SJsonWs(Payload), SJson(JNum(5)), SJson(JNull), SJson(JArr(<<>>)),
    SJson(JObj(Put(Payload.v, "_version", JNum(MaxVersion)))),
    SText("hello"), EmptyString }

RndSalts == {"s1", "s2"}
RndIVs == {"i1"}

\* What the key may hold before the application starts.
InitialStore ==
  { Absent,
    SJson(Payload),
    SJson(JObj(Put(Payload.v, "_version", JNum(MaxVersion)))),
    SText("hello"),
    encrypt(SJson(Payload), "k0", NoFields, "s1", "i1").v }

MigrationMaps(fns) == UNION { [D -> fns] : D \in SUBSET (1..MaxVersion) }

MigrateChoices(fns) ==
  { Options([version |-> v, migrations |-> m]) : v \in 1..MaxVersion, m \in MigrationMaps(fns) }

CompressChoices == { BoolTrue, Options([minSize |-> 8]) }
EncryptChoices == { BoolTrue, Options([secret |-> "k1"]) }

NoCall == [op |-> "none", arg |-> Absent, res |-> Ok(Absent), trace |-> <<>>]

setItem(value, rndSalt, rndIv) ==
  LET r == Storage_setItem(createPersistPlus(cfg), value, rndSalt, rndIv) IN
  /\ store' = IF r.write = NotGiven THEN store ELSE r.write[1]
  /\ written' = IF r.write = NotGiven THEN written ELSE Given(value)
  /\ last' = [op |-> "set", arg |-> value, res |-> r.res, trace |-> r.trace]
  /\ UNCHANGED <<cfg, cryptoVars, resolverVars, conflictVars, syncVars, stagedVars, compressVars>>

\* A read that stores what it returned when that is another JSON text than
\* the one stored.
ReadWrite_persists(stored, res) ==
  IF res.k = "ok" /\ res.v # stored /\ res.v.k = "json" THEN Given(res.v) ELSE NotGiven

\* What a read hands to setItem of the storage it reads from: the getItem of
\* every layer and migrateState call storage.getItem and nothing else of it.
ReadWrite(stored, res) == NotGiven

getItem(lib, cbc) ==
  LET r == Storage_getItem(createPersistPlus(cfg),
                           IF cfg.storage = "async" /\ store # Absent THEN PromiseOf(store) ELSE store,
                           lib, cbc)
      w == ReadWrite(store, r.res)
  IN
  /\ store' = IF w = NotGiven THEN store ELSE w[1]
  /\ last' = [op |-> "get", arg |-> store, res |-> r.res, trace |-> r.trace]
  /\ UNCHANGED <<cfg, written, cryptoVars, resolverVars, conflictVars, syncVars, stagedVars, compressVars>>

\* migrateState(storage, name, toVersion, migrations) on the underlying storage.
migrateStateOfStore(toVersion, migrations) ==
  LET r == migrateState(store, toVersion, migrations)
      w == ReadWrite(store, Ok(IF r.k = "value" THEN JSON_stringify(r.v) ELSE r.v))
  IN
  /\ store' = IF w = NotGiven THEN store ELSE w[1]
  /\ last' = [op |-> "migrateState", arg |-> store, res |-> Ok(r), trace |-> <<>>]
  /\ UNCHANGED <<cfg, written, cryptoVars, resolverVars, conflictVars, syncVars, stagedVars, compressVars>>

removeItem ==
  /\ store' = Absent
  /\ written' = NotGiven
  /\ last' = [op |-> "remove", arg |-> Absent, res |-> Ok(Absent), trace |-> <<>>]
  /\ UNCHANGED <<cfg, cryptoVars, resolverVars, conflictVars, syncVars, stagedVars, compressVars>>

\* The application is rebuilt with another schema version (an upgrade, or an
\* older build opening the same storage).
Reconfigure(version) ==
  /\ cfg.migrate.k = "options"
  /\ version # cfg.migrate.v.version
  /\ cfg' = [cfg EXCEPT !.migrate = Options([cfg.migrate.v EXCEPT !.version = version])]
  /\ written' = NotGiven
  /\ last' = [op |-> "config", arg |-> Absent, res |-> Ok(Absent), trace |-> <<>>]
  /\ UNCHANGED <<store, cryptoVars, resolverVars, conflictVars, syncVars, stagedVars, compressVars>>

\* The outcomes of the libraries and of the random generators are drawn where
\* the configured chain calls them.
SaltsDrawn == IF cfg.encrypt.k = "off" THEN {"s1"} ELSE RndSalts
LzDrawn == IF cfg.compress.k = "off" THEN {"null"} ELSE LzOutcomes
CbcDrawn == IF cfg.encrypt.k = "off" THEN {"malformed"} ELSE CbcOutcomes

StorageNext ==
  \/ \E value \in WriteValues, rndSalt \in SaltsDrawn, rndIv \in RndIVs : setItem(value, rndSalt, rndIv)
  \/ \E lib \in LzDrawn, cbc \in CbcDrawn : getItem(lib, cbc)
  \/ removeItem
  \/ \E version \in 1..MaxVersion : Reconfigure(version)
  \/ \E toVersion \in 1..MaxVersion, migrations \in MigrationMaps({"addCreatedAt"}) :
       migrateStateOfStore(toVersion, migrations)

-----------------------------------------------------------------------------
(* Calls of encrypt and decrypt: encrypt(cPlain, cSecret, cOptions), then  *)
(* decrypt of the envelope with cSecret2.                                  *)

Secrets == {"", "k1", "k2"}
Plaintexts == { SText("hello"), EmptyString, SJson(Payload), SJson(JNum(5)), SLone }
EncryptOptionSets ==
  { NoFields, [iterations |-> 5000], [keyLength |-> 128], [algorithm |-> "XSalsa20"],
    [salt |-> "pinned"], [iv |-> "00ff"] }

CallEncrypt(rndSalt, rndIv) ==
  /\ cPc = "start"
  /\ cEnvelope' = encrypt(cPlain, cSecret, cOptions, rndSalt, rndIv)
  /\ cPc' = "encrypted"
  /\ UNCHANGED <<cPlain, cSecret, cSecret2, cOptions, cResult, storageVars, resolverVars, conflictVars, syncVars, stagedVars, compressVars>>

CallDecrypt(cbc) ==
  /\ cPc = "encrypted"
  /\ cEnvelope.k = "ok"
  /\ cResult' = decrypt(cEnvelope.v, cSecret2, cbc)
  /\ cPc' = "decrypted"
  /\ UNCHANGED <<cPlain, cSecret, cSecret2, cOptions, cEnvelope, storageVars, resolverVars, conflictVars, syncVars, stagedVars, compressVars>>

\* decrypt called on cPlain itself, a string encrypt has not produced.
CallDecryptData(cbc) ==
  /\ cPc = "start"
  /\ cResult' = decrypt(cPlain, cSecret2, cbc)
  /\ cPc' = "decryptedData"
  /\ UNCHANGED <<cPlain, cSecret, cSecret2, cOptions, cEnvelope, storageVars, resolverVars, conflictVars, syncVars, stagedVars, compressVars>>

CryptoNext ==
  \/ \E rndSalt \in RndSalts, rndIv \in RndIVs : CallEncrypt(rndSalt, rndIv)
  \/ \E cbc \in CbcOutcomes : CallDecrypt(cbc)
  \/ \E cbc \in CbcOutcomes : CallDecryptData(cbc)

-----------------------------------------------------------------------------
(* Conflict resolution (the sync-conflict module).                         *)

NoMergeOptions == [ignoreKeys |-> {}, forceLWWKeys |-> {}]

IsPlainObject(x) == x.k = "obj"   \* non-null, typeof 'object', not an array

\* The value undefined: what reading a key an object lacks gives.  A property
\* set to undefined counts as absent, as it is in the serialized state.
JUndefined == [k |-> "undefined", v |-> 0]
Read(f, key) == IF key \in DOMAIN f THEN f[key] ELSE JUndefined

RECURSIVE mergeStates(_, _, _)
\* mergeStates without the recursion into nested objects: remote's object
\* replaces local's.
mergeStates_shallow(localState, remoteState, options) ==
  LET allKeys == (DOMAIN localState.v) \cup (DOMAIN remoteState.v)
      entry(key) == IF key \in options.ignoreKeys \/ key \notin DOMAIN remoteState.v
                    THEN Read(localState.v, key) ELSE remoteState.v[key]
  IN JObj([key \in { x \in allKeys : entry(x) # JUndefined } |-> entry(key)])

\* mergeStates with const result = {} for { ...localState }.
mergeStates_emptyResult(localState, remoteState, options) ==
  LET allKeys == (DOMAIN localState.v) \cup (DOMAIN remoteState.v)
      entry(key) ==
        LET localVal == Read(localState.v, key)
            remoteVal == Read(remoteState.v, key)
        IN IF key \in options.ignoreKeys THEN JUndefined
           ELSE IF key \in options.forceLWWKeys THEN remoteVal
           ELSE IF IsPlainObject(localVal) /\ IsPlainObject(remoteVal)
                THEN mergeStates(localVal, remoteVal, NoMergeOptions)
           ELSE remoteVal
  IN JObj([key \in { x \in allKeys : entry(x) # JUndefined } |-> entry(key)])

\* mergeStates with the forceLWWKeys test after the test for two objects.
mergeStates_forceAfterMerge(localState, remoteState, options) ==
  LET allKeys == (DOMAIN localState.v) \cup (DOMAIN remoteState.v)
      entry(key) ==
        LET localVal == Read(localState.v, key)
            remoteVal == Read(remoteState.v, key)
        IN IF key \in options.ignoreKeys THEN localVal
           ELSE IF IsPlainObject(localVal) /\ IsPlainObject(remoteVal)
                THEN mergeStates(localVal, remoteVal, NoMergeOptions)
           ELSE IF key \in options.forceLWWKeys THEN remoteVal
           ELSE IF remoteVal # JUndefined THEN remoteVal
           ELSE localVal
  IN JObj([key \in { x \in allKeys : entry(x) # JUndefined } |-> entry(key)])

mergeStates(localState, remoteState, options) ==
  LET result0 == localState.v                     \* { ...localState }
      allKeys == (DOMAIN localState.v) \cup (DOMAIN remoteState.v)
      entry(key) ==
        LET localVal == Read(localState.v, key)
            remoteVal == Read(remoteState.v, key)
        IN IF key \in options.ignoreKeys THEN Read(result0, key)      \* continue
           ELSE IF key \in options.forceLWWKeys THEN remoteVal
           ELSE IF IsPlainObject(localVal) /\ IsPlainObject(remoteVal)
                THEN mergeStates(localVal, remoteVal, NoMergeOptions)
           ELSE IF remoteVal # JUndefined THEN remoteVal
           ELSE Read(result0, key)
  IN JObj([key \in { x \in allKeys : entry(x) # JUndefined } |-> entry(key)])

DefaultTimestampKey == "_updatedAt"

\* timestamp ? new Date(timestamp).getTime() : 0, NaN as NotGiven
TimeOf(state, key) ==
  IF key \notin DOMAIN state.v THEN Given(0)
  ELSE LET t == state.v[key] IN
       CASE t.k = "num" -> Given(t.v)
         [] t.k = "null" -> Given(0)
         [] OTHER -> NotGiven

\* lastWriteWins with >= for >: a tie goes to remote.
lastWriteWins_tieToRemote(localState, remoteState, timestampKey) ==
  LET key == IF timestampKey = NotGiven THEN DefaultTimestampKey ELSE timestampKey[1]
      localTime == TimeOf(localState, key)
      remoteTime == TimeOf(remoteState, key)
  IN IF localTime # NotGiven /\ remoteTime # NotGiven /\ remoteTime[1] >= localTime[1]
     THEN remoteState ELSE localState

lastWriteWins(localState, remoteState, timestampKey) ==
  LET key == IF timestampKey = NotGiven THEN DefaultTimestampKey ELSE timestampKey[1]
      localTime == TimeOf(localState, key)
      remoteTime == TimeOf(remoteState, key)
  IN IF localTime # NotGiven /\ remoteTime # NotGiven /\ remoteTime[1] > localTime[1]
     THEN remoteState ELSE localState

Leaves == { JNum(1), JNum(2), JNull, JArr(<<JNum(1)>>), JArr(<<JNum(2), JNum(3)>>) }
InnerObjects ==
  { JObj([c |-> JNum(2)]), JObj([d |-> JNum(3)]), JObj([c |-> JNum(5), d |-> JNum(3)]),
    JObj([c |-> JObj([c |-> JNum(2)])]), JObj([c |-> JObj([d |-> JNum(3)]), d |-> JArr(<<>>)]) }

\* The states mergeStates is called with: objects over the keys a, b, e.
MergeStates ==
  { JObj(f) : f \in UNION { [D -> Leaves \cup InnerObjects] : D \in SUBSET {"a", "b"} } }
  \cup { JObj([a |-> JNum(1), b |-> JObj([c |-> JNum(2)])]),
         JObj([a |-> JNum(2), b |-> JObj([d |-> JNum(3)]), e |-> JNum(4)]) }

Times == (-1)..MaxTime
\* The states lastWriteWins is called with: who holds it, and its timestamps.
LwwStates ==
  { JObj([who |-> JNum(w)] @@ u @@ t) :
      w \in {1, 2},
      u \in {NoFields} \cup { [_updatedAt |-> JNum(n)] : n \in Times },
      t \in {NoFields} \cup { [ts |-> JNum(n)] : n \in Times } }

\* The options mergeStates is called with: keys of the state (a) and keys of
\* its nested objects (c), also one key in both lists.
MergeOptionSets ==
  { [ignoreKeys |-> i, forceLWWKeys |-> f] : i \in {{}, {"a"}, {"c"}}, f \in {{}, {"a"}, {"c"}} }

ResolverInputs == (MergeStates \X MergeStates) \cup (LwwStates \X LwwStates)

CallMergeStates ==
  /\ rPc = "start"
  /\ rResult' = mergeStates(rLocal, rRemote, rOptions)
  /\ rPc' = "merged"
  /\ UNCHANGED <<rLocal, rRemote, rKey, rOptions, storageVars, cryptoVars, conflictVars, syncVars, stagedVars, compressVars>>

CallLastWriteWins ==
  /\ rPc = "start"
  /\ rResult' = lastWriteWins(rLocal, rRemote, rKey)
  /\ rPc' = "lww"
  /\ UNCHANGED <<rLocal, rRemote, rKey, rOptions, storageVars, cryptoVars, conflictVars, syncVars, stagedVars, compressVars>>

ResolverNext == CallMergeStates \/ CallLastWriteWins

-----------------------------------------------------------------------------
(* createConflictResolver.  A state handed to the resolver is an object:   *)
(* its fields (v), which object it is (ref) and the order its keys were    *)
(* inserted in (order), which JSON.stringify follows.                      *)

Obj(fields, ref, order) == [k |-> "obj", v |-> fields, ref |-> ref, order |-> order]

\* JSON.stringify of a state object: the text is determined by the fields and,
\* for more than one key, by the order of the keys.
\* A function serializes to undefined.
Stringify(obj) ==
  IF obj.k = "fn" THEN JUndefined
  ELSE [v |-> obj.v, order |-> IF Cardinality(DOMAIN obj.v) > 1 THEN obj.order ELSE 0]

serverWins(localState, remoteState) == remoteState
clientWins(localState, remoteState) == localState

Strategies == {"last-write-wins", "server-wins", "client-wins", "merge", "custom"}

\* What a function the application supplied (onConflict, mergeStrategy) returns:
\* the local object, the remote object or an object of its own.
Picks == {"local", "remote", "new"}

\* The object mergeStates builds: { ...localState } with the merged keys.
Merged(localState, remoteState, options) ==
  Obj(mergeStates(localState, remoteState, options).v, "new", localState.order)

Supplied(pick, localState, remoteState) ==
  CASE pick = "local" -> localState
    [] pick = "remote" -> remoteState
    [] pick = "new" -> Merged(localState, remoteState, NoMergeOptions)

\* The switch of resolveWithResult over the strategy in force, for a resolver
\* whose closure holds strategy, handler ("none" or "set") and merge; invoked:
\* the functions it called.
Dispatch(strategy, handler, merge, options, localState, remoteState, pick) ==
  LET lww == [state |-> lastWriteWins(localState, remoteState, options.timestampKey),
              invoked |-> {"lastWriteWins"}]
  IN CASE strategy = "last-write-wins" -> lww
       [] strategy = "server-wins" ->
            [state |-> serverWins(localState, remoteState), invoked |-> {"serverWins"}]
       [] strategy = "client-wins" ->
            [state |-> clientWins(localState, remoteState), invoked |-> {"clientWins"}]
       [] strategy = "merge" ->
            IF merge = "mergeStates"
            THEN [state |-> Merged(localState, remoteState, options), invoked |-> {"mergeStates"}]
            ELSE [state |-> Supplied(pick, localState, remoteState), invoked |-> {"mergeStrategy"}]
       [] strategy = "custom" ->
            IF handler = "set"
            THEN [state |-> Supplied(pick, localState, remoteState), invoked |-> {"onConflict"}]
            ELSE lww
       [] OTHER -> lww

\* resolveWithResult comparing the two objects by identity, not by their
\* serialization.
resolveWithResult_noEqualCheck(strategy, handler, merge, options, localState, remoteState, pick) ==
  LET resolved == Dispatch(strategy, handler, merge, options, localState, remoteState, pick)
  IN IF localState = remoteState
     THEN [state |-> localState, hadConflict |-> FALSE, strategy |-> "last-write-wins",
           invoked |-> {}]
     ELSE [state |-> resolved.state, hadConflict |-> TRUE, strategy |-> strategy,
           invoked |-> resolved.invoked]

resolveWithResult(strategy, handler, merge, options, localState, remoteState, pick) ==
  LET localStr == Stringify(localState)
      remoteStr == Stringify(remoteState)
      resolved == Dispatch(strategy, handler, merge, options, localState, remoteState, pick)
  IN IF localStr = remoteStr
     THEN [state |-> localState, hadConflict |-> FALSE, strategy |-> "last-write-wins",
           invoked |-> {}]
     ELSE [state |-> resolved.state, hadConflict |-> TRUE, strategy |-> strategy,
           invoked |-> resolved.invoked]

\* resolve: resolveWithResult(...).state
resolve(strategy, handler, merge, options, localState, remoteState, pick) ==
  resolveWithResult(strategy, handler, merge, options, localState, remoteState, pick).state

\* The fields of the states the resolver is called with.
ConflictFields ==
  { [a |-> JNum(1)], [a |-> JNum(2)], [a |-> JNum(1), b |-> JNum(2)],
    [a |-> JNum(1), _updatedAt |-> JNum(1)], [a |-> JNum(2), _updatedAt |-> JNum(MaxTime)] }
\* The orders the keys of an object with these fields can have been inserted in.
KeyOrders(fields) == IF Cardinality(DOMAIN fields) > 1 THEN {1, 2} ELSE {1}

ConflictOptionSets ==
  { [ignoreKeys |-> i, forceLWWKeys |-> {}, timestampKey |-> NotGiven] : i \in {{}, {"b"}} }

NoResolution == [local |-> JNull, remote |-> JNull, result |-> JNull]

CallResolveWithResult(localState, remoteState, pick) ==
  /\ resolution' =
       [local |-> localState, remote |-> remoteState,
        result |-> resolveWithResult(currentStrategy, customHandler, mergeFn, conflictOptions,
                                     localState, remoteState, pick)]
  /\ UNCHANGED <<currentStrategy, customHandler, mergeFn, conflictOptions,
                 storageVars, cryptoVars, resolverVars, syncVars, stagedVars, compressVars>>

setStrategy(strategy) ==
  /\ strategy # currentStrategy
  /\ currentStrategy' = strategy
  /\ UNCHANGED <<customHandler, mergeFn, conflictOptions, resolution,
                 storageVars, cryptoVars, resolverVars, syncVars, stagedVars, compressVars>>

setCustomHandler ==
  /\ customHandler = "none"
  /\ customHandler' = "set"
  /\ UNCHANGED <<currentStrategy, mergeFn, conflictOptions, resolution,
                 storageVars, cryptoVars, resolverVars, syncVars, stagedVars, compressVars>>

\* The functions the application supplied are drawn only where they are called.
PicksDrawn ==
  IF (currentStrategy = "custom" /\ customHandler = "set")
     \/ (currentStrategy = "merge" /\ mergeFn = "mergeStrategy")
  THEN Picks ELSE {"local"}

ConflictNext ==
  \/ \E fl \in ConflictFields, fr \in ConflictFields, pick \in PicksDrawn :
       \E ol \in KeyOrders(fl), or \in KeyOrders(fr) :
         CallResolveWithResult(Obj(fl, "local", ol), Obj(fr, "remote", or), pick)
  \/ \E strategy \in Strategies : setStrategy(strategy)
  \/ setCustomHandler

-----------------------------------------------------------------------------
(* withCloudSync over the Supabase provider: the subscription callback,    *)
(* the interval callback and the teardown function.  The store is          *)
(* zustand's: its first state is the value the wrapped creator returned,   *)
(* the teardown function with the store's properties assigned to it, and   *)
(* set(partial) replaces the state by the new object                       *)
(* Object.assign({}, state, partial).  Object identity is kept relative to *)
(* the current state: an object is the "current" state or an "older" one.  *)

\* client: config.supabaseClient is given; without it createSyncManager and
\* createCloudStorage return null.
SyncConfigs ==
  { [autoSync |-> t[1], enableSync |-> t[2], strategy |-> st, handler |-> h, client |-> TRUE] :
      t \in {<<TRUE, TRUE>>, <<TRUE, FALSE>>, <<FALSE, TRUE>>},
      st \in Strategies, h \in {"none", "set"} }
  \cup { [autoSync |-> TRUE, enableSync |-> TRUE, strategy |-> "last-write-wins",
          handler |-> "none", client |-> FALSE] }

\* The options withCloudSync creates its resolver with: { strategy, onConflict }.
SyncResolverOptions == [ignoreKeys |-> {}, forceLWWKeys |-> {}, timestampKey |-> NotGiven]

InitialFields == [count |-> JNum(1), _updatedAt |-> JNum(1)]
\* The partial states the application sets and the states other clients hold.
SyncFields == { [count |-> JNum(2), _updatedAt |-> JNum(2)], [count |-> JNum(3)] }

\* JSON.stringify(currentState): undefined (Absent) for the function the
\* store starts with.
StateText(current) == IF current.fn THEN Absent ELSE JSON_stringify(JObj(current.v))

\* The state as the object the resolver is called with.
StateObject(current) ==
  [k |-> IF current.fn THEN "fn" ELSE "obj", v |-> current.v, ref |-> "local", order |-> 1]

\* set(partial) of zustand; flag: isRemoteUpdate at the time of the call.
ZustandSet(current, partial, flag) ==
  [v |-> Spread(current.v, partial), fn |-> FALSE, flag |-> flag]

\* What was the current state object is an older one after a set.
Aged(is) == IF is = "current" THEN "older" ELSE is
AgedWrites(writes) == [i \in DOMAIN writes |-> [writes[i] EXCEPT !.is = Aged(writes[i].is)]]

SyncStep(op) ==
  [op |-> op, started |-> FALSE, pending |-> FALSE, flagged |-> FALSE, divergent |-> FALSE,
   resolved |-> NotGiven, upsert |-> "none", onSync |-> FALSE, onError |-> FALSE,
   recorded |-> FALSE, changed |-> FALSE]

\* The application changes the store.
LocalChange(partial) ==
  /\ appState' = ZustandSet(appState, partial, isRemoteUpdate)
  /\ lastSyncedState' = Aged(lastSyncedState)
  /\ inflight' = AgedWrites(inflight)
  /\ syncLast' = SyncStep("set")
  /\ UNCHANGED <<syncCfg, isRemoteUpdate, pendingSync, syncInterval, channel, subscribed,
                 remoteRow, tornDown, storageVars, cryptoVars, resolverVars, conflictVars, stagedVars, compressVars>>

\* if (pendingSync) return; if (currentState === lastSyncedState) return
TickSkips_ignoresPending == lastSyncedState = "current"

TickSkips == pendingSync \/ lastSyncedState = "current"

\* pendingSync when the try statement of the interval callback is left with
\* its flag cleared only after the awaited write.
PendingAfter_clearedAfterWrite(outcome) == outcome = "noStorage"

\* pendingSync when the try statement of the interval callback is left:
\* the write was fulfilled or rejected, or createCloudStorage returned null.
PendingAfter(outcome) == FALSE

\* The interval callback up to its await: it starts storage.setItem or
\* returns; without a storage it runs to its end.
Tick ==
  /\ syncInterval = "set"
  /\ LET step == [SyncStep("tick") EXCEPT !.pending = pendingSync, !.flagged = appState.flag,
                                           !.divergent = (remoteRow # Absent /\ remoteRow # StateText(appState))]
     IN IF TickSkips
        THEN /\ syncLast' = step
             /\ UNCHANGED <<pendingSync, inflight>>
        ELSE IF ~syncCfg.client
        THEN /\ pendingSync' = PendingAfter("noStorage")
             /\ syncLast' = step
             /\ UNCHANGED inflight
        ELSE /\ Len(inflight) < MaxInflight
             /\ pendingSync' = TRUE
             /\ inflight' = Append(inflight, [value |-> StateText(appState), is |-> "current"])
             /\ syncLast' = [step EXCEPT !.started = TRUE]
  /\ UNCHANGED <<syncCfg, appState, lastSyncedState, isRemoteUpdate, syncInterval, channel,
                 subscribed, remoteRow, tornDown, storageVars, cryptoVars, resolverVars, conflictVars, stagedVars, compressVars>>

\* What the upsert request does: it succeeds, resolves with { error } or rejects.
UpsertOutcomes == {"ok", "error", "rejected"}

\* createSupabaseStorage.setItem awaits the upsert inside try/catch and does
\* not read its result: the promise it returns is fulfilled in every case.
createSupabaseStorage_setItem(upsert) == "fulfilled"

\* The upsert of the i-th write in flight settles and the interval callback
\* runs from its await to its end.
Settle(i, upsert) ==
  /\ i \in DOMAIN inflight
  /\ LET write == inflight[i]
         awaited == createSupabaseStorage_setItem(upsert)
         step == [SyncStep("settle") EXCEPT !.upsert = upsert]
     IN /\ remoteRow' = IF upsert = "ok" /\ write.value # Absent THEN write.value ELSE remoteRow
        /\ inflight' = [j \in 1..(Len(inflight) - 1) |-> IF j < i THEN inflight[j] ELSE inflight[j + 1]]
        /\ IF awaited = "fulfilled"
           THEN /\ lastSyncedState' = write.is
                /\ syncLast' = [step EXCEPT !.onSync = TRUE, !.recorded = TRUE]
           ELSE /\ UNCHANGED lastSyncedState
                /\ syncLast' = [step EXCEPT !.onError = TRUE]
        /\ pendingSync' = PendingAfter(awaited)
  /\ UNCHANGED <<syncCfg, appState, isRemoteUpdate, syncInterval, channel, subscribed,
                 tornDown, storageVars, cryptoVars, resolverVars, conflictVars, stagedVars, compressVars>>

\* The values a change event of the subscribed channel carries: null for a
\* DELETE, else the row's value column.
EventValues == {Absent, SText("hello")} \cup { JSON_stringify(JObj(f)) : f \in SyncFields }

\* The subscription callback, called with a change event's value.
OnRemoteChange(value, pick) ==
  /\ subscribed
  /\ LET parsed == JSON_parse(value)
         localState == StateObject(appState)
         step == [SyncStep("event") EXCEPT !.divergent = (value # Absent /\ value # StateText(appState))]
     IN IF value \in {Absent, EmptyString}
        THEN /\ syncLast' = step
             /\ UNCHANGED <<appState, lastSyncedState, inflight>>
        ELSE IF parsed.k = "throw"
        THEN /\ syncLast' = [step EXCEPT !.onError = TRUE]
             /\ UNCHANGED <<appState, lastSyncedState, inflight>>
        ELSE LET remoteState == Obj(parsed.v.v, "remote", 1)
                 resolved == resolve(syncCfg.strategy, syncCfg.handler, "mergeStates",
                                     SyncResolverOptions, localState, remoteState, pick)
             IN IF resolved.ref # "local"
                THEN /\ appState' = ZustandSet(appState, resolved.v, TRUE)
                     /\ lastSyncedState' = Aged(lastSyncedState)
                     /\ inflight' = AgedWrites(inflight)
                     /\ syncLast' = [step EXCEPT !.resolved = Given(resolved.v),
                                                 !.changed = TRUE, !.onSync = TRUE]
                ELSE /\ syncLast' = [step EXCEPT !.resolved = Given(resolved.v)]
                     /\ UNCHANGED <<appState, lastSyncedState, inflight>>
  /\ isRemoteUpdate' = FALSE
  /\ UNCHANGED <<syncCfg, pendingSync, syncInterval, channel, subscribed, tornDown,
                 storageVars, cryptoVars, resolverVars, conflictVars, stagedVars, compressVars>>

\* A change event of the subscribed channel arrives.
RemoteEvent(value, pick) ==
  /\ OnRemoteChange(value, pick)
  /\ UNCHANGED remoteRow

\* syncManager.subscribe('*all*', ...) and storage.setItem('default', ...)
SubscribedKey == "*all*"
SyncedKey == "default"
\* The filter of the channel: keyColumn=eq.key
FilterMatches(key, rowKey) == key = rowKey

\* Another instance of the store writes the row its outbound syncs write,
\* the one of SyncedKey; the change is delivered to the callback if the
\* channel's filter matches the row.
RemoteWrite(value, pick) ==
  /\ value # remoteRow
  /\ remoteRow' = value
  /\ IF subscribed /\ FilterMatches(SubscribedKey, SyncedKey)
     THEN OnRemoteChange(value, pick)
     ELSE /\ syncLast' = SyncStep("remoteWrite")
          /\ UNCHANGED <<syncCfg, appState, lastSyncedState, isRemoteUpdate, pendingSync,
                         syncInterval, channel, subscribed, inflight, tornDown,
                         storageVars, cryptoVars, resolverVars, conflictVars, stagedVars,
                         compressVars>>

\* The teardown function: clearInterval(syncInterval); syncManager.disconnect(),
\* which removes this.channel if it is set.
Teardown ==
  /\ ~tornDown
  /\ tornDown' = TRUE
  /\ syncInterval' = IF syncInterval = "set" THEN "cleared" ELSE syncInterval
  /\ channel' = "null"
  /\ subscribed' = IF channel # "null" THEN FALSE ELSE subscribed
  /\ syncLast' = SyncStep("teardown")
  /\ UNCHANGED <<syncCfg, appState, lastSyncedState, isRemoteUpdate, pendingSync, remoteRow,
                 inflight, storageVars, cryptoVars, resolverVars, conflictVars, stagedVars, compressVars>>

SyncPicksDrawn ==
  IF syncCfg.strategy = "custom" /\ syncCfg.handler = "set" THEN Picks ELSE {"local"}

SyncNext ==
  \/ \E partial \in SyncFields : LocalChange(partial)
  \/ Tick
  \/ \E i \in 1..MaxInflight, upsert \in UpsertOutcomes : Settle(i, upsert)
  \/ \E value \in EventValues, pick \in SyncPicksDrawn : RemoteEvent(value, pick)
  \/ \E f \in SyncFields, pick \in SyncPicksDrawn : RemoteWrite(JSON_stringify(JObj(f)), pick)
  \/ Teardown

-----------------------------------------------------------------------------
(* Migration in stages, and migrateState.  One blob is read through a      *)
(* migration layer of version mVersionB, the result is written back        *)
(* through that layer and read through a layer of version mVersionC; the   *)
(* blob as it was is also read through the final layer directly and handed *)
(* to migrateState with the target mVersionC.                              *)

\* The blobs the storage holds at the start: a payload of each version, 0
\* for one without `_version`, and strings that are no JSON object.
StagedBlobs ==
  { SJson(Payload), SText("hello"), SJson(JNum(5)) }
    \cup { SJson(JObj(Put(Payload.v, "_version", JNum(a)))) : a \in 1..MaxVersion }

ReadStage ==
  /\ mPc = "start"
  /\ mStaged' = createMigratingStorage_getItem(mStore, mVersionB, mMigrations)
  /\ mPc' = "read"
  /\ UNCHANGED <<mStored, mMigrations, mVersionB, mVersionC, mStore, mDirect, mState,
                 storageVars, cryptoVars, resolverVars, conflictVars, syncVars, compressVars>>

WriteBack ==
  /\ mPc = "read"
  /\ mStore' = createMigratingStorage_setItem(mStaged.v, mVersionB)
  /\ mPc' = "written"
  /\ UNCHANGED <<mStored, mMigrations, mVersionB, mVersionC, mStaged, mDirect, mState,
                 storageVars, cryptoVars, resolverVars, conflictVars, syncVars, compressVars>>

ReadFinal ==
  /\ mPc = "written"
  /\ mStaged' = createMigratingStorage_getItem(mStore, mVersionC, mMigrations)
  /\ mPc' = "staged"
  /\ UNCHANGED <<mStored, mMigrations, mVersionB, mVersionC, mStore, mDirect, mState,
                 storageVars, cryptoVars, resolverVars, conflictVars, syncVars, compressVars>>

ReadDirect ==
  /\ mPc = "staged"
  /\ mDirect' = createMigratingStorage_getItem(mStored, mVersionC, mMigrations)
  /\ mPc' = "direct"
  /\ UNCHANGED <<mStored, mMigrations, mVersionB, mVersionC, mStore, mStaged, mState,
                 storageVars, cryptoVars, resolverVars, conflictVars, syncVars, compressVars>>

CallMigrateState ==
  /\ mPc = "direct"
  /\ mState' = migrateState(mStored, mVersionC, mMigrations)
  /\ mPc' = "done"
  /\ UNCHANGED <<mStored, mMigrations, mVersionB, mVersionC, mStore, mStaged, mDirect,
                 storageVars, cryptoVars, resolverVars, conflictVars, syncVars, compressVars>>

StagedNext == ReadStage \/ WriteBack \/ ReadFinal \/ ReadDirect \/ CallMigrateState

-----------------------------------------------------------------------------
(* shouldCompress called directly.                                         *)

\* The lengths of the strings and the thresholds drawn: the small ones, and
\* those around the default threshold.
StringLengths == (0..MaxLength) \cup {DefaultMinSize - 1, DefaultMinSize, DefaultMinSize + 1}
MinSizes == {NotGiven} \cup { Given(n) : n \in (0..MaxLength) \cup {DefaultMinSize} }

CallShouldCompress ==
  /\ zPc = "start"
  /\ zResult' = shouldCompress(zData, zMinSize)
  /\ zPc' = "done"
  /\ UNCHANGED <<zData, zMinSize, storageVars, cryptoVars, resolverVars, conflictVars,
                 syncVars, stagedVars>>

CompressNext == CallShouldCompress

-----------------------------------------------------------------------------
(* Specifications.  Each runs one part of the library; the variables of    *)
(* the other parts stay at their idle values.                              *)

StorageIdle ==
  /\ store = Absent /\ cfg = [migrate |-> Off, compress |-> Off, encrypt |-> Off, storage |-> "sync"]
  /\ written = NotGiven /\ last = NoCall

CryptoIdle ==
  /\ cPlain = EmptyString /\ cSecret = "" /\ cSecret2 = "" /\ cOptions = NoFields
  /\ cEnvelope = Ok(Absent) /\ cResult = Ok(Absent) /\ cPc = "idle"

ResolverIdle ==
  /\ rLocal = JNull /\ rRemote = JNull /\ rKey = NotGiven /\ rOptions = NoMergeOptions
  /\ rResult = JNull /\ rPc = "idle"

ConflictIdle ==
  /\ currentStrategy = "last-write-wins" /\ customHandler = "none" /\ mergeFn = "mergeStates"
  /\ conflictOptions = NoFields /\ resolution = NoResolution

SyncIdle ==
  /\ syncCfg = NoFields /\ appState = JNull /\ lastSyncedState = "null"
  /\ isRemoteUpdate = FALSE /\ pendingSync = FALSE /\ syncInterval = "null"
  /\ channel = "null" /\ subscribed = FALSE /\ remoteRow = Absent /\ inflight = <<>>
  /\ tornDown = FALSE /\ syncLast = SyncStep("none")

StagedIdle ==
  /\ mStored = Absent /\ mMigrations = NoFields /\ mVersionB = 0 /\ mVersionC = 0
  /\ mStore = Absent /\ mStaged = Ok(Absent) /\ mDirect = Ok(Absent)
  /\ mState = Resolved("value", JNull) /\ mPc = "idle"

CompressIdle ==
  zData = EmptyString /\ zMinSize = NotGiven /\ zResult = FALSE /\ zPc = "idle"

\* The storage createPersistPlus builds, for every combination of layers.
StorageInit ==
  /\ store \in InitialStore
  /\ cfg \in [migrate : {Off} \cup MigrateChoices({"addCreatedAt"}),
              compress : {Off} \cup CompressChoices,
              encrypt : {Off} \cup EncryptChoices, storage : {"sync"}]
  /\ written = NotGiven /\ last = NoCall
  /\ CryptoIdle /\ ResolverIdle /\ ConflictIdle /\ SyncIdle /\ StagedIdle /\ CompressIdle

StorageSpec == StorageInit /\ [][StorageNext]_vars

\* One transform layer alone over the underlying storage: a migration layer
\* with any map of migration functions, a compression layer or an encryption layer.
LayerInit ==
  /\ store \in InitialStore
  /\ cfg \in [migrate : MigrateChoices(MigrationFns), compress : {Off}, encrypt : {Off}, storage : {"sync"}]
             \cup [migrate : {Off}, compress : CompressChoices, encrypt : {Off}, storage : {"sync"}]
             \cup [migrate : {Off}, compress : {Off}, encrypt : EncryptChoices, storage : {"sync"}]
  /\ written = NotGiven /\ last = NoCall
  /\ CryptoIdle /\ ResolverIdle /\ ConflictIdle /\ SyncIdle /\ StagedIdle /\ CompressIdle

LayerSpec == LayerInit /\ [][StorageNext]_vars

\* One transform layer alone over an asynchronous storage, one whose getItem
\* returns a Promise (createSupabaseStorage); its writes complete at once.
AsyncLayerInit ==
  /\ store \in InitialStore
  /\ cfg \in [migrate : MigrateChoices({"addCreatedAt"}), compress : {Off}, encrypt : {Off},
               storage : {"async"}]
             \cup [migrate : {Off}, compress : CompressChoices, encrypt : {Off}, storage : {"async"}]
             \cup [migrate : {Off}, compress : {Off}, encrypt : EncryptChoices, storage : {"async"}]
  /\ written = NotGiven /\ last = NoCall
  /\ CryptoIdle /\ ResolverIdle /\ ConflictIdle /\ SyncIdle /\ StagedIdle /\ CompressIdle

AsyncLayerSpec == AsyncLayerInit /\ [][StorageNext]_vars

\* encrypt and decrypt called directly.
CryptoInit ==
  /\ cPlain \in Plaintexts /\ cSecret \in Secrets /\ cSecret2 \in Secrets
  /\ cOptions \in EncryptOptionSets
  /\ cEnvelope = Ok(Absent) /\ cResult = Ok(Absent) /\ cPc = "start"
  /\ StorageIdle /\ ResolverIdle /\ ConflictIdle /\ SyncIdle /\ StagedIdle /\ CompressIdle

CryptoSpec == CryptoInit /\ [][CryptoNext]_vars

\* The conflict-resolution functions called directly.
ResolverInit ==
  /\ \E in \in ResolverInputs : rLocal = in[1] /\ rRemote = in[2]
  /\ rKey \in {NotGiven, Given("ts")}
  /\ rOptions \in (IF rLocal \in MergeStates THEN MergeOptionSets ELSE {NoMergeOptions})
  /\ rResult = JNull /\ rPc = "start"
  /\ StorageIdle /\ CryptoIdle /\ ConflictIdle /\ SyncIdle /\ StagedIdle /\ CompressIdle

ResolverSpec == ResolverInit /\ [][ResolverNext]_vars

\* A resolver made by createConflictResolver, for every strategy it is created with.
ConflictInit ==
  /\ currentStrategy \in Strategies /\ customHandler \in {"none", "set"}
  /\ mergeFn \in {"mergeStates", "mergeStrategy"}
  /\ conflictOptions \in ConflictOptionSets
  /\ resolution = NoResolution
  /\ StorageIdle /\ CryptoIdle /\ ResolverIdle /\ SyncIdle /\ StagedIdle /\ CompressIdle

ConflictSpec == ConflictInit /\ [][ConflictNext]_vars

\* A store created with withCloudSync: the subscription is opened if the
\* manager's enableSync allows it, the timer is set if autoSync && interval > 0.
SyncInit ==
  /\ syncCfg \in SyncConfigs
  /\ appState = [v |-> InitialFields, fn |-> TRUE, flag |-> FALSE]
  /\ lastSyncedState = "null" /\ isRemoteUpdate = FALSE /\ pendingSync = FALSE
  /\ syncInterval = IF syncCfg.autoSync THEN "set" ELSE "null"
  /\ channel = "null" /\ subscribed = (syncCfg.client /\ syncCfg.enableSync)
  /\ remoteRow = Absent /\ inflight = <<>> /\ tornDown = FALSE /\ syncLast = SyncStep("none")
  /\ StorageIdle /\ CryptoIdle /\ ResolverIdle /\ ConflictIdle /\ StagedIdle /\ CompressIdle

SyncSpec == SyncInit /\ [][SyncNext]_vars

\* The timer of setInterval keeps firing until it is cleared, and every
\* write in flight settles.
SyncFairSpec ==
  /\ SyncInit /\ [][SyncNext]_vars
  /\ WF_vars(Tick)
  /\ WF_vars(\E i \in 1..MaxInflight, upsert \in UpsertOutcomes : Settle(i, upsert))

\* A blob of version a and two migration layers of versions b <= c, a <= b,
\* sharing one migrations map.
StagedInit ==
  /\ mStored \in StagedBlobs
  /\ mMigrations \in MigrationMaps(MigrationFns)
  /\ mVersionB \in 1..MaxVersion /\ mVersionC \in 1..MaxVersion
  /\ LET parsed == JSON_parse(mStored)
     IN (IF parsed.k = "ok" THEN VersionOf(parsed.v) ELSE 0) <= mVersionB
  /\ mVersionB <= mVersionC
  /\ mStore = mStored /\ mStaged = Ok(Absent) /\ mDirect = Ok(Absent)
  /\ mState = Resolved("value", JNull) /\ mPc = "start"
  /\ StorageIdle /\ CryptoIdle /\ ResolverIdle /\ ConflictIdle /\ SyncIdle /\ CompressIdle

StagedSpec == StagedInit /\ [][StagedNext]_vars

\* shouldCompress called on a string of any drawn length, with and without
\* a threshold.
CompressInit ==
  /\ zData \in { SRep(n) : n \in StringLengths } \cup {SText("short"), SJson(Payload)}
  /\ zMinSize \in MinSizes
  /\ zResult = FALSE /\ zPc = "start"
  /\ StorageIdle /\ CryptoIdle /\ ResolverIdle /\ ConflictIdle /\ SyncIdle /\ StagedIdle

CompressSpec == CompressInit /\ [][CompressNext]_vars

-----------------------------------------------------------------------------
(* Properties. *)

Enabled(kind) == cfg[kind].k # "off"
OnlyLayer(kind) == \A x \in {"migrate", "compress", "encrypt"} : Enabled(x) <=> x = kind
LayerVersion == cfg.migrate.v.version
LayerMigrations == cfg.migrate.v.migrations

\* C1: each layer's getItem returns null when its inner storage holds nothing,
\* and when its inverse transform fails (decrypt, decompress, JSON.parse or a
\* migration function throws) it returns the inner stored string unchanged; no
\* getItem raises an exception.
C1_FailOpen ==
  last.op = "get" =>
    /\ last.res.k = "ok"
    /\ \A i \in DOMAIN last.trace :
         LET step == last.trace[i] IN
         /\ step.out.k = "ok"
         /\ step.inp = Absent => step.out.v = Absent
         /\ step.failed => step.out.v = step.inp

\* An encryption layer has read a stored string that is no cipher envelope:
\* decrypt failed and getItem returned the string as stored.
C1_Witness ==
  /\ last.op = "get" /\ Len(last.trace) = 1
  /\ last.trace[1].kind = "encrypt" /\ last.trace[1].failed
  /\ last.trace[1].inp = SText("hello") /\ last.res = Ok(SText("hello"))

\* The layers createPersistPlus enabled, in the order the specification gives
\* for a write: version stamp, then compression, then encryption.
SpecifiedWriteOrder ==
  SelectSeq(<<"migrate", "compress", "encrypt">>, Enabled)

\* C2: a setItem on the composed storage applies the enabled transforms in the
\* order version stamp, compression, encryption, and the string handed to the
\* underlying storage is the cipher envelope the encryption step produced.
C2_EncryptionLast ==
  (last.op = "set" /\ last.res.k = "ok" /\ Len(last.trace) >= 2) =>
    /\ [i \in DOMAIN last.trace |-> last.trace[i].kind] = SpecifiedWriteOrder
    /\ Enabled("encrypt") =>
         /\ last.trace[Len(last.trace)].kind = "encrypt"
         /\ store = last.trace[Len(last.trace)].out.v

IsCipherEnvelope(s) ==
  LET parsed == JSON_parse(s) IN
  /\ parsed.k = "ok" /\ parsed.v.k = "obj"
  /\ {"salt", "iv", "ciphertext", "algorithm"} \subseteq DOMAIN parsed.v.v

\* Whether the migration layer stamped or migrated the string it was given.
MigrationTouched(step) ==
  LET parsed == JSON_parse(step.inp) IN
  /\ step.kind = "migrate" /\ step.inp # Absent /\ parsed.k = "ok"
  /\ IF last.op = "set" THEN StampVersion(parsed.v, LayerVersion).k = "ok"
     ELSE parsed.v.k # "null" /\ VersionOf(parsed.v) < LayerVersion

\* C3: in a composed storage the version stamp and the migration functions are
\* applied to the plain JSON payload only, never to a cipher envelope or to a
\* compressed string.
C3_MigrationOnPlaintext ==
  \A i \in DOMAIN last.trace :
    MigrationTouched(last.trace[i]) =>
      ~IsCipherEnvelope(last.trace[i].inp) /\ last.trace[i].inp.k # "lz"


\* The stored string of a read through a migration layer alone, when it is a
\* JSON object.
StoredObject == JSON_parse(last.arg).v
MigrationReadOfObject ==
  /\ last.op = "get" /\ OnlyLayer("migrate") /\ last.arg # Absent
  /\ JSON_parse(last.arg).k = "ok" /\ StoredObject.k = "obj"

\* The versions in v+1..version that have a migration registered, ascending.
DueVersions(v, version, migrations) ==
  SelectSeq([i \in 1..(IF version > v THEN version - v ELSE 0) |-> v + i],
            LAMBDA x : x \in DOMAIN migrations)

RECURSIVE ApplyInOrder(_, _, _)
\* The payload after the migrations of the versions due, the last one applied
\* to what the ones before it gave.
ApplyInOrder(due, migrations, payload) ==
  IF due = <<>> THEN Ok(payload)
  ELSE LET before == ApplyInOrder(SubSeq(due, 1, Len(due) - 1), migrations, payload) IN
       IF before.k = "throw" THEN before
       ELSE ApplyMigration(migrations[due[Len(due)]], before.v)

MigratedPayload ==
  ApplyInOrder(DueVersions(VersionOf(StoredObject), LayerVersion, LayerMigrations),
               LayerMigrations, StoredObject)

Stamped(payload, version) == SJson(JObj(Put(payload.v, "_version", JNum(version))))

\* C4 as stated: whatever the stored version, getItem returns the payload with
\* migrations[v+1..V] applied in increasing order and `_version` V.
C4_AlwaysStampedCurrent ==
  (MigrationReadOfObject /\ MigratedPayload.k = "ok" /\ MigratedPayload.v.k = "obj") =>
    last.res = Ok(Stamped(MigratedPayload.v, LayerVersion))

\* C4: a stored JSON object of version v read through a migration layer of
\* version V.  If v < V the registered migrations of v+1..V are called in
\* increasing order, each once, unregistered versions skipped; when none throws
\* and the last gives an object, getItem returns that object with `_version` V,
\* and otherwise it returns the stored string.  If v >= V no migration is called
\* and the stored string is returned as it is, its `_version` still v.
C4_MigrationRead ==
  MigrationReadOfObject =>
    LET v == VersionOf(StoredObject)
        due == DueVersions(v, LayerVersion, LayerMigrations)
        calls == last.trace[1].calls
    IN IF v >= LayerVersion
       THEN calls = <<>> /\ last.res = Ok(last.arg)
       ELSE IF MigratedPayload.k = "ok"
            THEN /\ calls = due
                 /\ last.res = IF MigratedPayload.v.k = "obj"
                               THEN Ok(Stamped(MigratedPayload.v, LayerVersion))
                               ELSE Ok(last.arg)
            ELSE /\ \E n \in 1..Len(due) : calls = SubSeq(due, 1, n)
                 /\ last.res = Ok(last.arg)

\* A payload of version 0 has gone through two different migrations to version 2.
C4_Witness ==
  /\ MigrationReadOfObject /\ VersionOf(StoredObject) = 0 /\ LayerVersion >= 2
  /\ last.trace[1].calls = <<1, 2>>
  /\ LayerMigrations[1] = "renameCount" /\ LayerMigrations[2] = "addCreatedAt"
  /\ last.res = Ok(Stamped(JObj([total |-> JNum(5), createdAt |-> JNum(1)]), LayerVersion))

\* The schema version of what the key holds: `_version`, 0 when absent.
StoredVersion(s) ==
  IF s # Absent /\ JSON_parse(s).k = "ok" THEN VersionOf(JSON_parse(s).v) ELSE 0

\* C5: no write through a migration layer lowers the schema version of the
\* payload the key holds.
C5_VersionNeverDecreases ==
  [][(last'.op = "set" /\ OnlyLayer("migrate")) => StoredVersion(store') >= StoredVersion(store)]_vars

\* encrypt(s, k) with no options has returned an envelope and decrypt has been
\* called on it with the same secret.
RoundTripSameKey ==
  cPc = "decrypted" /\ cOptions = NoFields /\ cSecret2 = cSecret

\* C6 as stated: decrypt(encrypt(s, k), k) returns s for every string s, the
\* empty string included.
C6_RoundTripEveryString ==
  RoundTripSameKey => cResult = Ok(cPlain)

\* C6: for a non-empty secret k, decrypt(encrypt(s, k), k) returns s for every
\* non-empty string s that has no lone surrogate; for the empty string decrypt
\* raises the decryption error, and for a string with a lone surrogate encrypt
\* raises URIError.
C6_RoundTrip ==
  /\ RoundTripSameKey =>
       cResult = IF cPlain = EmptyString THEN FailedToDecrypt ELSE Ok(cPlain)
  /\ (cPc \in {"encrypted", "decrypted"} /\ cSecret # "") =>
       (cEnvelope.k = "throw" <=> cPlain = SLone)

\* A JSON payload has come back from its envelope.
C6_Witness ==
  /\ RoundTripSameKey /\ cSecret = "k1"
  /\ cPlain = SJson(Payload) /\ cResult = Ok(SJson(Payload))

\* C7: decrypt(encrypt(s, k1), k2) with non-empty k1 # k2 raises the decryption
\* error and never returns a string.
C7_WrongKeyAlwaysRaises ==
  (cPc = "decrypted" /\ cOptions = NoFields /\ cSecret2 # cSecret /\ cSecret2 # "") =>
    cResult = FailedToDecrypt

\* C8: what setItem wrote through a compression layer alone, compressed or
\* not, is what the following getItem returns.
C8_CompressedRoundTrip ==
  (last.op = "get" /\ OnlyLayer("compress") /\ written # NotGiven) =>
    /\ store = IF shouldCompress(written[1], MinSizeOf(cfg.compress))
               THEN compress(written[1]) ELSE written[1]
    /\ last.res = Ok(written[1])

RECURSIVE IsMergeOf(_, _, _)
\* result has the keys of both sides; a key both sides hold a plain object for
\* holds the merge of the two; any other key holds remote's value if remote
\* has the key, local's if not.
IsMergeOf(result, local, remote) ==
  /\ result.k = "obj"
  /\ DOMAIN result.v = (DOMAIN local.v) \cup (DOMAIN remote.v)
  /\ \A key \in DOMAIN result.v :
       IF key \in DOMAIN local.v /\ key \in DOMAIN remote.v
          /\ local.v[key].k = "obj" /\ remote.v[key].k = "obj"
       THEN IsMergeOf(result.v[key], local.v[key], remote.v[key])
       ELSE IF key \in DOMAIN remote.v THEN result.v[key] = remote.v[key]
       ELSE result.v[key] = local.v[key]

\* C9: mergeStates(local, remote) without options returns the union of the
\* keys, merges recursively where both sides hold a non-null, non-array object,
\* and otherwise takes remote's value if remote defines the key and local's if
\* not; an array is a leaf that remote replaces.
C9_MergeStates ==
  (rPc = "merged" /\ rOptions = NoMergeOptions) => IsMergeOf(rResult, rLocal, rRemote)

\* {a:1, b:{c:2}} merged with {a:2, b:{d:3}, e:4} has given {a:2, b:{c:2, d:3}, e:4}.
C9_Witness ==
  /\ rPc = "merged" /\ rOptions = NoMergeOptions
  /\ rLocal = JObj([a |-> JNum(1), b |-> JObj([c |-> JNum(2)])])
  /\ rRemote = JObj([a |-> JNum(2), b |-> JObj([d |-> JNum(3)]), e |-> JNum(4)])
  /\ rResult = JObj([a |-> JNum(2), b |-> JObj([c |-> JNum(2), d |-> JNum(3)]), e |-> JNum(4)])

\* The timestamp of a state under the key lastWriteWins was called with, a
\* missing one counting as 0.
StampOf(state) ==
  LET key == IF rKey = NotGiven THEN "_updatedAt" ELSE rKey[1] IN
  IF key \in DOMAIN state.v THEN state.v[key].v ELSE 0

\* C10: lastWriteWins returns remote when remote's timestamp is strictly
\* greater than local's and local otherwise, so on a tie and when both
\* timestamps are missing; a missing timestamp counts as 0.
C10_LastWriteWins ==
  rPc = "lww" =>
    /\ StampOf(rRemote) > StampOf(rLocal) => rResult = rRemote
    /\ StampOf(rRemote) <= StampOf(rLocal) => rResult = rLocal

\* Two different states with equal timestamps under a custom key: local is returned.
C10_Witness ==
  /\ rPc = "lww" /\ rKey = Given("ts") /\ rLocal # rRemote
  /\ "ts" \in DOMAIN rLocal.v /\ "ts" \in DOMAIN rRemote.v
  /\ StampOf(rLocal) = MaxTime /\ StampOf(rRemote) = MaxTime
  /\ rResult = rLocal

\* C11: whatever the strategy in force, when local and remote serialize to the
\* same JSON string resolveWithResult returns the local object with
\* hadConflict = false and calls no strategy, merge or custom function.
C11_EqualStatesNoConflict ==
  (resolution # NoResolution /\ Stringify(resolution.local) = Stringify(resolution.remote)) =>
    /\ resolution.result.state = resolution.local
    /\ resolution.result.hadConflict = FALSE
    /\ resolution.result.invoked = {}

\* After setStrategy('server-wins'), two equal states with several keys in the
\* same order have been resolved to the local object.
C11_Witness ==
  /\ resolution # NoResolution /\ currentStrategy = "server-wins"
  /\ Cardinality(DOMAIN resolution.local.v) > 1
  /\ Stringify(resolution.local) = Stringify(resolution.remote)
  /\ resolution.result.state.ref = "local" /\ ~resolution.result.hadConflict

\* C12: within one withCloudSync instance at most one storage.setItem is in
\* flight, pendingSync is set exactly while one is, and a tick that finds a
\* write pending starts none.
C12_SingleFlight ==
  /\ Len(inflight) <= 1
  /\ pendingSync <=> Len(inflight) = 1
  /\ (syncLast.op = "tick" /\ syncLast.pending) => ~syncLast.started

\* A tick has fired while a write of an older state was in flight and has
\* started nothing.
C12_Witness ==
  /\ syncLast.op = "tick" /\ syncLast.pending /\ ~syncLast.started
  /\ Len(inflight) = 1 /\ inflight[1].is = "older"

\* C13: a state the subscription callback set because of a remote update is
\* flagged as remote-originated, and no tick writes a state so flagged to the
\* remote store.
C13_NoEcho ==
  /\ (syncLast.op = "event" /\ syncLast.changed) => appState.flag
  /\ (syncLast.op = "tick" /\ syncLast.flagged) => ~syncLast.started

\* C14: when the upsert of an outbound write returns an error or throws,
\* onError is called, onSync is not, and the written state is not recorded
\* as the last synced state.
C14_FailedWriteReported ==
  (syncLast.op = "settle" /\ syncLast.upsert # "ok") =>
    syncLast.onError /\ ~syncLast.onSync /\ ~syncLast.recorded

\* C15: a tick or a push event that finds the remote value different from
\* the local state runs the resolver, and afterwards the local state and the
\* remote store both hold the resolver's result; in particular no tick
\* starts a write of the local state over a different remote value.
C15_ResolveOnDivergence ==
  (syncLast.op \in {"tick", "event"} /\ syncLast.divergent) =>
    /\ syncLast.resolved # NotGiven
    /\ ~syncLast.started
    /\ appState.v = syncLast.resolved[1]
    /\ remoteRow = JSON_stringify(JObj(syncLast.resolved[1]))

\* C16: once the teardown function has run the timer is cancelled and the
\* subscription is released: no tick starts a write and no remote event
\* changes the local state or calls onSync.
C16_TeardownReleases ==
  tornDown =>
    /\ syncInterval # "set"
    /\ ~subscribed
    /\ syncLast.op = "tick" => ~syncLast.started
    /\ syncLast.op = "event" => ~syncLast.changed /\ ~syncLast.onSync

\* C17: whatever layers createPersistPlus was given (encrypt as options or as
\* true, compress, migrate) and whatever is stored or written, no getItem,
\* setItem or removeItem of the storage it returns throws to its caller.
C17_NeverRaises == last.res.k = "ok"

\* A write through a migration layer alone.
MigrationWrite == last.op = "set" /\ OnlyLayer("migrate")

PayloadOf(res) == IF JSON_parse(res.v).k = "ok" THEN JSON_parse(res.v).v ELSE res.v

\* Both paths have read through the final layer.
StagedBoth == mPc \in {"direct", "done"}

\* The migrations registered never throw, return an object and do not read
\* `_version`.
PlainMigrations ==
  \A v \in DOMAIN mMigrations : mMigrations[v] \in {"addCreatedAt", "renameCount", "inc"}

C19_MigrateStateAsLayer ==
  mPc = "done" => mState = Resolved("value", PayloadOf(mDirect))

RECURSIVE HonoursKeys(_, _, _)
\* At this level and at every level below, a key of ignoreKeys reads in result
\* as it does in local and a key of forceLWWKeys as it does in remote.
HonoursKeys(result, local, remote) ==
  /\ result.k = "obj"
  /\ \A key \in rOptions.ignoreKeys : Read(result.v, key) = Read(local.v, key)
  /\ \A key \in rOptions.forceLWWKeys : Read(result.v, key) = Read(remote.v, key)
  /\ \A key \in ((DOMAIN local.v) \cap (DOMAIN remote.v))
                   \ (rOptions.ignoreKeys \cup rOptions.forceLWWKeys) :
       (local.v[key].k = "obj" /\ remote.v[key].k = "obj") =>
         HonoursKeys(Read(result.v, key), local.v[key], remote.v[key])

\* C21 as stated: ignoreKeys and forceLWWKeys are honoured at every level of
\* the recursive merge.
C21_KeysAtEveryLevel ==
  rPc = "merged" => HonoursKeys(rResult, rLocal, rRemote)

\* C21: in the result of mergeStates a key of the state listed in ignoreKeys
\* has local's value (absent if local lacks it) whatever remote holds, and a
\* key of the state listed in forceLWWKeys and not in ignoreKeys has remote's
\* value whatever local holds, also when both values are objects; inside
\* nested objects the two lists have no effect.
C21_KeysOfTheState ==
  rPc = "merged" =>
    /\ \A key \in rOptions.ignoreKeys : Read(rResult.v, key) = Read(rLocal.v, key)
    /\ \A key \in rOptions.forceLWWKeys \ rOptions.ignoreKeys :
         Read(rResult.v, key) = Read(rRemote.v, key)
    /\ \A key \in ((DOMAIN rLocal.v) \cap (DOMAIN rRemote.v))
                     \ (rOptions.ignoreKeys \cup rOptions.forceLWWKeys) :
         (rLocal.v[key].k = "obj" /\ rRemote.v[key].k = "obj") =>
           IsMergeOf(rResult.v[key], rLocal.v[key], rRemote.v[key])

\* Two different objects under a forced key: remote's has replaced local's,
\* unmerged; and under another key a nested key of the forced name is merged.
C21_Witness ==
  /\ rPc = "merged" /\ rOptions.forceLWWKeys = {"a"} /\ rOptions.ignoreKeys = {}
  /\ rLocal = JObj([a |-> JObj([c |-> JNum(2)]), b |-> JNum(1)])
  /\ rRemote = JObj([a |-> JObj([d |-> JNum(3)]), b |-> JNum(2)])
  /\ rResult = JObj([a |-> JObj([d |-> JNum(3)]), b |-> JNum(2)])

SecretRequired == Throw("Encryption secret is required")

\* C23: with an empty secret encrypt and decrypt throw 'Encryption secret is
\* required', whatever the data and the options are.
C23_EmptySecretRaises ==
  /\ (cPc \in {"encrypted", "decrypted"} /\ cSecret = "") => cEnvelope = SecretRequired
  /\ (cPc \in {"decrypted", "decryptedData"} /\ cSecret2 = "") => cResult = SecretRequired

\* decrypt has been called with an empty secret on a string that is no
\* envelope.
C23_Witness ==
  /\ cSecret2 = "" /\ cResult = SecretRequired
  /\ cPc = "decryptedData" /\ cPlain = SText("hello")

\* The number of UTF-16 code units of the string shouldCompress was given.
CodeUnits ==
  CASE zData.k = "rep" -> zData.v
    [] zData = SText("short") -> 5
    [] zData = SJson(Payload) -> 11
Threshold == IF zMinSize = NotGiven THEN DefaultMinSize ELSE zMinSize[1]

\* C24: shouldCompress(s, n) is true exactly when s has at least n
\* characters, n being 1024 when it is omitted.
C24_ShouldCompress ==
  zPc = "done" => (zResult <=> CodeUnits >= Threshold)

\* With the threshold omitted a string of 1024 characters has been accepted.
C24_Witness ==
  zPc = "done" /\ zMinSize = NotGiven /\ zData = SRep(DefaultMinSize) /\ zResult

\* C25: a read leaves the storage as it was: getItem of a layer or of a
\* composed storage and migrateState change nothing the key holds, so a
\* payload migrated on read keeps its old version in storage.
C25_ReadsLeaveStorage ==
  [][last'.op \in {"get", "migrateState"} => store' = store]_vars

\* A read through a migration layer has returned a payload of a newer version
\* than the one the key still holds.
C25_Witness ==
  /\ last.op = "get" /\ Enabled("migrate") /\ last.res.k = "ok" /\ last.res.v # Absent
  /\ StoredVersion(last.res.v) > StoredVersion(store)
  /\ store = last.arg

\* C26: through a transform layer over an asynchronous storage, getItem
\* after a completed setItem returns a value, and through the encryption
\* layer the value that was written.
C26_AsyncRoundTrip ==
  (last.op = "get" /\ cfg.storage = "async" /\ written # NotGiven) =>
    /\ last.res.k = "ok" /\ last.res.v # Absent
    /\ OnlyLayer("encrypt") => last.res = Ok(written[1])

\* C27: decrypt(encrypt(s, k, options), k) returns s for every option set,
\* for a non-empty secret k and a non-empty string s without lone surrogate.
C27_RoundTripWithOptions ==
  (cPc = "decrypted" /\ cSecret2 = cSecret /\ cSecret # ""
     /\ cPlain # EmptyString /\ cPlain # SLone) =>
    cResult = Ok(cPlain)

\* C28: the strategy field of the result of resolveWithResult is the
\* strategy the resolver is configured with when it is called, also when the
\* two states serialize identically.
C28_StrategyIsConfigured ==
  [][resolution' # resolution => resolution'.result.strategy = currentStrategy]_vars

\* The interval callback has gone past its two guards: it has started a
\* write or found no storage to write to.
TickAttempts ==
  syncLast.op = "tick" /\ ~syncLast.pending /\ (syncLast.started \/ ~syncCfg.client)

\* C29: pendingSync is clear whenever a write has settled, whatever its
\* outcome, and whenever no cloud storage can be created; and while the
\* timer is set every change of the local state is followed by a tick that
\* attempts a write.
C29_PendingCleared ==
  /\ [](syncLast.op = "settle" => ~pendingSync)
  /\ [](~syncCfg.client => ~pendingSync)
  /\ (syncLast.op = "set") ~> (TickAttempts \/ syncInterval # "set")

\* A tick has started the write of a changed state after an earlier write
\* settled without reaching the remote row.
C29_Witness ==
  /\ syncLast.op = "tick" /\ syncLast.started /\ lastSyncedState = "older"
  /\ remoteRow = Absent /\ inflight[1].value # Absent

\* C30: the subscription is on the key the outbound syncs write, and a
\* write another instance makes to that key while this instance is
\* subscribed reaches the subscription callback.
C30_WritesAreDelivered ==
  (syncLast.op = "remoteWrite" /\ subscribed) => SubscribedKey = SyncedKey
=============================================================================
